---- MODULE Spec2Model ----
(***************************************************************************)
(* A model of the maze driving game: maze generation (src/src/maze.js),    *)
(* wall geometry and colliders, station placement and car physics          *)
(* (src/unnamed/part_000), the frame loop (src/src/main.js) and the        *)
(* keyboard state (src/src/input.js).                                      *)
(*                                                                         *)
(* World coordinates are kept in tenths of a unit (x - width/2 becomes     *)
(* 10*x - 5*width, y = 2 becomes 20, y = 0.1 becomes 1), so that the       *)
(* halves and the tenth the code produces are exact integers.              *)
(***************************************************************************)
EXTENDS Integers, Sequences, FiniteSets, TLC

\* Largest maze the generator is run on (rooms lie on even coordinates).
MaxW == 6
MaxH == 6

\* Largest grid handed to the wall builders.
LevelMaxW == 3
LevelMaxH == 2

VARIABLES
    width,      \* generateMaze: parameter width
    height,     \* generateMaze: parameter height
    maze,       \* generateMaze: the grid being carved, maze[x][z], 1 = wall, 0 = path
    visited,    \* generateMaze: visited[x][z]
    stack,      \* generateMaze: the DFS stack of cells
    pushes,     \* history: how many times each cell was pushed on the stack
    pc,         \* generateMaze: "loop" while carving, "done" after the return
    mazeData,   \* module-level mazeData: the last generated grid, or NoMaze
    world,      \* physics: module-level world, "null" until initPhysics has run
    physPc,     \* physics: initPhysics is "idle", "awaiting" RAPIER.init(), or "ready"
    bodies,     \* physics: the rigid bodies created so far, each with its collider
    carBody,    \* physics: index in bodies of the car's rigid body, or 0
    collidersMade, \* physics: createMazeColliders has returned
    lastError,  \* physics: the exception the last creation call threw, or "none"
    instances,  \* createMazeGeometry: the instanced mesh returned, or NoMesh
    numPlates,  \* getRandomPlatePlacements: parameter numPlates
    placements, \* getRandomPlatePlacements: the accepted cells
    attempts,   \* getRandomPlatePlacements: the attempts made
    plPc,       \* createStations: "sampling", "placed" (the list is returned), "done"
    stations,   \* module-level stations
    rotation,   \* the car body's rotation, components in halves
    inputKeys,  \* the key flags handed to updateCarPhysics
    impulses,   \* the linear impulses applied to the car body in this tick
    torques,    \* the torque impulses applied to the car body in this tick
    carPc,      \* "update" before updateCarPhysics, "updated" after
    frame,      \* main.js: frames animated so far
    car,        \* main.js: the car model: "null", "loaded"
    loadPc,     \* main.js: loader.load is "loading", "loaded" or "failed"
    cubeRotation, \* main.js: cube.rotation.y, in half deltas
    viewport,   \* main.js: the renderer's size
    frameCalls, \* main.js: the calls the last animate() made, in order
    keys,       \* input.js: the four action flags
    held,       \* history: the physical keys that are down
    prevented,  \* input.js: the last event had preventDefault() called
    lastKey     \* history: e.key of the last event, "" before the first

mazeVars == <<width, height, maze, visited, stack, pushes, pc>>
levelVars == <<world, physPc, bodies, carBody, collidersMade, lastError, instances>>

placeVars == <<numPlates, placements, attempts, plPc, stations>>
carVars == <<rotation, inputKeys, impulses, torques, carPc>>
loopVars == <<frame, car, loadPc, cubeRotation, viewport, frameCalls>>

inputVars == <<keys, held, prevented, lastKey>>

vars == <<mazeVars, mazeData, levelVars, placeVars, carVars, loopVars, inputVars>>

Wall == 1
Path == 0

\* mazeData before any maze is stored (null in the code).
NoMaze == << >>

\* The mesh variable before createMazeGeometry has returned one.
NoMesh == [made |-> FALSE, count |-> 0, matrices |-> << >>]

Cell(x, z) == [x |-> x, z |-> z]

\* Array(width).fill(null).map(() => Array(height).fill(v))
Filled(w, h, v) == [x \in 0..(w - 1) |-> [z \in 0..(h - 1) |-> v]]

\* a[x][z] = v
Put(a, x, z, v) == [a EXCEPT ![x][z] = v]

\* maze.length and maze[0].length
GridWidth(g) == Cardinality(DOMAIN g)
GridHeight(g) == Cardinality(DOMAIN g[0])

\* All w x h grids of Wall and Path cells.
Grids(w, h) == [0..(w - 1) -> [0..(h - 1) -> {Wall, Path}]]

\* The parts of the program a specification does not run stay as loaded.
IdleMaze ==
    /\ width = 0
    /\ height = 0
    /\ maze = << >>
    /\ visited = << >>
    /\ stack = << >>
    /\ pushes = << >>
    /\ pc = "idle"

IdleLevel ==
    /\ world = "null"
    /\ physPc = "idle"
    /\ bodies = << >>
    /\ carBody = 0
    /\ collidersMade = FALSE
    /\ lastError = "none"
    /\ instances = NoMesh

IdlePlace ==
    /\ numPlates = 0
    /\ placements = << >>
    /\ attempts = 0
    /\ plPc = "idle"
    /\ stations = << >>

IdleCar ==
    /\ rotation = << >>
    /\ inputKeys = << >>
    /\ impulses = << >>
    /\ torques = << >>
    /\ carPc = "idle"

IdleLoop ==
    /\ frame = 0
    /\ car = "null"
    /\ loadPc = "idle"
    /\ cubeRotation = 0
    /\ viewport = << >>
    /\ frameCalls = << >>

\* input.js as loaded: no flag set, no key down.
IdleInput ==
    /\ keys = [forward |-> FALSE, backward |-> FALSE, left |-> FALSE, right |-> FALSE]
    /\ held = {}
    /\ prevented = FALSE
    /\ lastKey = ""

(***************************************************************************)
(* generateMaze                                                            *)
(***************************************************************************)

\* Mutant: the wall offsets name the current cell, so no wall is removed.
DirectionsNoWall ==
    << [dx |-> 0,  dz |-> -2, wallX |-> 0, wallZ |-> 0],
       [dx |-> 2,  dz |-> 0,  wallX |-> 0, wallZ |-> 0],
       [dx |-> 0,  dz |-> 2,  wallX |-> 0, wallZ |-> 0],
       [dx |-> -2, dz |-> 0,  wallX |-> 0, wallZ |-> 0] >>

\* North, East, South, West
directions ==
    << [dx |-> 0,  dz |-> -2, wallX |-> 0,  wallZ |-> -1],
       [dx |-> 2,  dz |-> 0,  wallX |-> 1,  wallZ |-> 0],
       [dx |-> 0,  dz |-> 2,  wallX |-> 0,  wallZ |-> 1],
       [dx |-> -2, dz |-> 0,  wallX |-> -1, wallZ |-> 0] >>

\* Mutant: the upper bound tests are off by one, so the last column and row
\* are never entered.
NeighborOffByOne(x, z, vis, dir) ==
    LET nx == x + dir.dx
        nz == z + dir.dz
    IN  IF nx >= 0 /\ nx < width - 1 /\ nz >= 0 /\ nz < height - 1 /\ ~vis[nx][nz]
        THEN << [x |-> nx, z |-> nz, wallX |-> x + dir.wallX, wallZ |-> z + dir.wallZ] >>
        ELSE << >>

\* The body of the loop over directions: the neighbour in direction dir, if
\* it is in bounds and unvisited.
Neighbor(x, z, vis, dir) ==
    LET nx == x + dir.dx
        nz == z + dir.dz
    IN  IF nx >= 0 /\ nx < width /\ nz >= 0 /\ nz < height /\ ~vis[nx][nz]
        THEN << [x |-> nx, z |-> nz, wallX |-> x + dir.wallX, wallZ |-> z + dir.wallZ] >>
        ELSE << >>

getUnvisitedNeighbors(x, z, vis) ==
    Neighbor(x, z, vis, directions[1]) \o Neighbor(x, z, vis, directions[2])
        \o Neighbor(x, z, vis, directions[3]) \o Neighbor(x, z, vis, directions[4])

\* The state after the initialisation of generateMaze(w, h).
MazeStart(w, h) ==
    /\ width = w
    /\ height = h
    /\ maze = Put(Filled(w, h, Wall), 0, 0, Path)
    /\ visited = Put(Filled(w, h, FALSE), 0, 0, TRUE)
    /\ stack = << Cell(0, 0) >>
    /\ pushes = [c \in {Cell(x, z) : x \in 0..(w - 1), z \in 0..(h - 1)} |->
                    IF c = Cell(0, 0) THEN 1 ELSE 0]
    /\ pc = "loop"
    /\ mazeData = NoMaze
    /\ IdleLevel
    /\ IdlePlace
    /\ IdleCar
    /\ IdleLoop
    /\ IdleInput

InitMaze == \E w \in 1..MaxW, h \in 1..MaxH : MazeStart(w, h)

\* The loop body when the top cell has an unvisited neighbour.
Carve ==
    /\ pc = "loop"
    /\ Len(stack) > 0
    /\ LET current == stack[Len(stack)]
           neighbors == getUnvisitedNeighbors(current.x, current.z, visited)
       IN  /\ Len(neighbors) > 0
           /\ \E i \in 1..Len(neighbors) :
                LET next == neighbors[i]
                IN  /\ maze' = Put(Put(maze, next.wallX, next.wallZ, Path),
                                   next.x, next.z, Path)
                    /\ visited' = Put(visited, next.x, next.z, TRUE)
                    /\ stack' = Append(stack, Cell(next.x, next.z))
                    /\ pushes' = [pushes EXCEPT ![Cell(next.x, next.z)] = @ + 1]
    /\ UNCHANGED <<width, height, pc, mazeData, levelVars, placeVars, carVars, loopVars, inputVars>>

\* The loop body when the top cell has none: backtrack.
Backtrack ==
    /\ pc = "loop"
    /\ Len(stack) > 0
    /\ LET current == stack[Len(stack)]
       IN  Len(getUnvisitedNeighbors(current.x, current.z, visited)) = 0
    /\ stack' = SubSeq(stack, 1, Len(stack) - 1)
    /\ UNCHANGED <<width, height, maze, visited, pushes, pc, mazeData, levelVars, placeVars, carVars, loopVars, inputVars>>

\* The loop exit: mazeData = maze; return maze.
ReturnMaze ==
    /\ pc = "loop"
    /\ Len(stack) = 0
    /\ mazeData' = maze
    /\ pc' = "done"
    /\ UNCHANGED <<width, height, maze, visited, stack, pushes, levelVars, placeVars, carVars, loopVars, inputVars>>

NextMaze == Carve \/ Backtrack \/ ReturnMaze

SpecMaze == InitMaze /\ [][NextMaze]_vars

\* The loop is a plain while loop: it keeps running until it exits.
FairSpecMaze == InitMaze /\ [][NextMaze]_vars /\ WF_vars(NextMaze)

(***************************************************************************)
(* Properties of generateMaze                                              *)
(***************************************************************************)

Cells(w, h) == {Cell(x, z) : x \in 0..(w - 1), z \in 0..(h - 1)}

PathCells(g, w, h) == {c \in Cells(w, h) : g[c.x][c.z] = Path}

Abs(n) == IF n < 0 THEN -n ELSE n

\* Neighbours in the grid (4-connectivity, one step).
Adjacent(a, b) == Abs(a.x - b.x) + Abs(a.z - b.z) = 1

\* The cells of P that can be reached from S by steps through P.
RECURSIVE Reach(_, _)
Reach(S, P) ==
    LET N == S \cup {c \in P : \E d \in S : Adjacent(c, d)}
    IN  IF N = S THEN S ELSE Reach(N, P)

IsEven(c) == c.x % 2 = 0 /\ c.z % 2 = 0

\* The rooms of a grid: its even-coordinate Path cells.
Rooms(g, w, h) == {c \in PathCells(g, w, h) : IsEven(c)}

\* The carved connections: pairs of rooms at stride 2 whose wall-between
\* cell is Path, each pair taken once (towards East or South).
Connections(g, w, h) ==
    {p \in Rooms(g, w, h) \X Rooms(g, w, h) :
        \/ p[2].x = p[1].x + 2 /\ p[2].z = p[1].z /\ g[p[1].x + 1][p[1].z] = Path
        \/ p[2].x = p[1].x /\ p[2].z = p[1].z + 2 /\ g[p[1].x][p[1].z + 1] = Path}

\* The rooms reachable from S over carved connections.
RECURSIVE ReachRooms(_, _)
ReachRooms(S, E) ==
    LET N == S \cup {p[2] : p \in {q \in E : q[1] \in S}}
                 \cup {p[1] : p \in {q \in E : q[2] \in S}}
    IN  IF N = S THEN S ELSE ReachRooms(N, E)

PerfectMaze(g, w, h) ==
    /\ g[0][0] = Path
    /\ Reach({Cell(0, 0)}, PathCells(g, w, h)) = PathCells(g, w, h)
    /\ ReachRooms({Cell(0, 0)}, Connections(g, w, h)) = Rooms(g, w, h)
    /\ Cardinality(Connections(g, w, h)) = Cardinality(Rooms(g, w, h)) - 1

\* C1: for W, H >= 2 the grid returned by generateMaze is a perfect maze:
\* (0,0) is Path, every Path cell is reachable from (0,0), the rooms are
\* connected over the carved connections, and there are exactly
\* (number of rooms - 1) carved connections.
C1_PerfectMaze ==
    (pc = "done" /\ width >= 2 /\ height >= 2) =>
        PerfectMaze(mazeData, width, height)

\* A 5 x 5 maze has been returned, with all nine rooms carved.
C1_Witness ==
    /\ pc = "done"
    /\ width = 5
    /\ height = 5
    /\ Cardinality(Rooms(mazeData, width, height)) = 9

EvenCells(w, h) == {c \in Cells(w, h) : IsEven(c)}

\* C9: for width, height >= 1 generateMaze terminates; the visited set only
\* grows; no cell is pushed twice, and at the end the stack is empty and
\* every in-bounds even-coordinate cell is visited and was pushed once.
C9_Terminates ==
    /\ <>(pc = "done")
    /\ [][\A c \in Cells(width, height) :
            visited[c.x][c.z] => visited'[c.x][c.z]]_vars
    /\ [](\A c \in Cells(width, height) : pushes[c] <= 1)
    /\ [](pc = "done" =>
            /\ stack = << >>
            /\ \A c \in EvenCells(width, height) :
                  visited[c.x][c.z] /\ pushes[c] = 1)

\* generateMaze(5, 4) has returned.
C9_Witness ==
    /\ pc = "done"
    /\ width = 5
    /\ height = 4
    /\ stack = << >>
    /\ \A c \in EvenCells(5, 4) : pushes[c] = 1

(***************************************************************************)
(* The physics world, the wall colliders and the wall geometry             *)
(***************************************************************************)

\* Positions the car body is created at.
CarSpawns == { <<0, 10, 0>>, <<0, 20, 0>> }

\* initPhysics up to the await of RAPIER.init().
InitPhysicsCall ==
    /\ physPc = "idle"
    /\ physPc' = "awaiting"
    /\ UNCHANGED <<world, bodies, carBody, collidersMade, lastError, instances>>
    /\ UNCHANGED <<mazeVars, mazeData, placeVars, carVars, loopVars, inputVars>>

\* initPhysics after the await: world = new RAPIER.World(gravity).
InitPhysicsResume ==
    /\ physPc = "awaiting"
    /\ world' = "World"
    /\ physPc' = "ready"
    /\ UNCHANGED <<bodies, carBody, collidersMade, lastError, instances>>
    /\ UNCHANGED <<mazeVars, mazeData, placeVars, carVars, loopVars, inputVars>>

\* Mutant: a missing world is replaced by a fresh one instead of failing.
CanCreateAlways(w) == TRUE

\* w.createRigidBody(...) and w.createCollider(...) need a world: on null
\* the member access throws a TypeError.
CanCreate(w) == w # "null"

\* The rigid body and the collider createCarBody makes.
CarBodyAt(position) ==
    [kind |-> "dynamic", translation |-> position,
     collider |-> [halfExtents |-> <<10, 5, 15>>, friction |-> 8]]

\* createCarBody(w, position), w being null or the world initPhysics made.
CreateCarBody ==
    /\ carBody = 0
    /\ \E w \in {"null", world}, position \in CarSpawns :
          IF CanCreate(w)
          THEN /\ bodies' = Append(bodies, CarBodyAt(position))
               /\ carBody' = Len(bodies) + 1
               /\ lastError' = "none"
          ELSE /\ lastError' = "TypeError"
               /\ UNCHANGED <<bodies, carBody>>
    /\ UNCHANGED <<world, physPc, collidersMade, instances>>
    /\ UNCHANGED <<mazeVars, mazeData, placeVars, carVars, loopVars, inputVars>>

\* for x < width, for z < height, if maze[x][z] === 1: the wall cells in
\* the order the two nested loops meet them.
WallCells(g) ==
    LET w == GridWidth(g)
        h == GridHeight(g)
        F[k \in 0..(w * h)] ==
            IF k = w * h THEN << >>
            ELSE LET x == k \div h
                     z == k % h
                 IN  IF g[x][z] = 1
                     THEN << Cell(x, z) >> \o F[k + 1]
                     ELSE F[k + 1]
    IN  F[0]

\* Mutant: posZ is centred with the width.
WallPositionSquare(x, z, w, h) == <<10 * x - 5 * w, 20, 10 * z - 5 * w>>

\* posX = x - width / 2, y = 2, posZ = z - height / 2 (in tenths).
WallPosition(x, z, w, h) == <<10 * x - 5 * w, 20, 10 * z - 5 * h>>

\* The fixed body and the collider made for the wall cell c.
WallBody(g, c) ==
    [kind |-> "fixed",
     translation |-> WallPosition(c.x, c.z, GridWidth(g), GridHeight(g)),
     collider |-> [halfExtents |-> <<5, 20, 5>>, friction |-> 8]]

\* createMazeColliders(w, mazeData): one fixed body per wall cell; with a
\* null world the first wall cell throws, and a grid without walls makes
\* nothing.
CreateMazeColliders ==
    /\ ~collidersMade
    /\ mazeData # NoMaze
    /\ \E w \in {"null", world} :
          LET cells == WallCells(mazeData)
          IN  IF Len(cells) = 0 \/ CanCreate(w)
              THEN /\ bodies' = bodies \o
                        [i \in 1..Len(cells) |-> WallBody(mazeData, cells[i])]
                   /\ collidersMade' = TRUE
                   /\ lastError' = "none"
              ELSE /\ lastError' = "TypeError"
                   /\ UNCHANGED <<bodies, collidersMade>>
    /\ UNCHANGED <<world, physPc, carBody, instances>>
    /\ UNCHANGED <<mazeVars, mazeData, placeVars, carVars, loopVars, inputVars>>

\* The first pair of loops of createMazeGeometry: wallCount.
CountWalls(g) == Len(WallCells(g))

\* createMazeGeometry(maze): an instanced mesh of wallCount instances, the
\* matrices set in the order of the second pair of loops.
CreateMazeGeometry ==
    /\ instances = NoMesh
    /\ mazeData # NoMaze
    /\ LET cells == WallCells(mazeData)
       IN  instances' =
             [made |-> TRUE, count |-> CountWalls(mazeData),
              matrices |-> [i \in 1..Len(cells) |->
                  WallPosition(cells[i].x, cells[i].z,
                               GridWidth(mazeData), GridHeight(mazeData))]]
    /\ UNCHANGED <<world, physPc, bodies, carBody, collidersMade, lastError>>
    /\ UNCHANGED <<mazeVars, mazeData, placeVars, carVars, loopVars, inputVars>>

InitLevel ==
    /\ \E w \in 1..LevelMaxW, h \in 1..LevelMaxH : mazeData \in Grids(w, h)
    /\ IdleMaze
    /\ IdleLevel
    /\ IdlePlace
    /\ IdleCar
    /\ IdleLoop
    /\ IdleInput

NextLevel ==
    \/ InitPhysicsCall
    \/ InitPhysicsResume
    \/ CreateCarBody
    \/ CreateMazeColliders
    \/ CreateMazeGeometry

SpecLevel == InitLevel /\ [][NextLevel]_vars

\* The fixed bodies among the bodies created: the wall colliders.
FixedBodies == SelectSeq(bodies, LAMBDA b : b.kind = "fixed")

Range(f) == {f[i] : i \in DOMAIN f}

WallSet(g) == {c \in Cells(GridWidth(g), GridHeight(g)) : g[c.x][c.z] = Wall}

\* Where the wall of cell c belongs: (x - width/2, 2, z - height/2).
ExpectedWallAt(g, c) ==
    <<10 * c.x - 5 * GridWidth(g), 20, 10 * c.z - 5 * GridHeight(g)>>

\* C5: the wall instances and the static colliders are each in one-to-one
\* correspondence with the Wall cells: as many instances and colliders as
\* Wall cells, placed exactly at the positions (x - width/2, 2, z - height/2)
\* of the Wall cells, so none stands on a Path cell.
C5_WallsMatchCells ==
    /\ instances.made =>
          /\ instances.count = Cardinality(WallSet(mazeData))
          /\ Len(instances.matrices) = instances.count
          /\ Range(instances.matrices) =
                {ExpectedWallAt(mazeData, c) : c \in WallSet(mazeData)}
    /\ collidersMade =>
          /\ Len(FixedBodies) = Cardinality(WallSet(mazeData))
          /\ {b.translation : b \in Range(FixedBodies)} =
                {ExpectedWallAt(mazeData, c) : c \in WallSet(mazeData)}
          /\ \A b \in Range(FixedBodies) : b.collider.halfExtents = <<5, 20, 5>>

\* Both builders have run on a 3 x 2 grid with walls and paths.
C5_Witness ==
    /\ instances.made
    /\ collidersMade
    /\ GridWidth(mazeData) = 3
    /\ GridHeight(mazeData) = 2
    /\ Cardinality(WallSet(mazeData)) = 4
    /\ Len(FixedBodies) = 4
    /\ instances.count = 4

\* C7 as claimed: no creation call succeeds on an uninitialised world:
\* while the world is missing, neither createCarBody nor
\* createMazeColliders has returned normally.
C7_AsClaimed ==
    world = "null" => (carBody = 0 /\ ~collidersMade)

\* C7 as amended: no rigid body or collider exists before initPhysics has
\* completed; a creation call made while the world is missing creates
\* nothing; createCarBody then fails, and createMazeColliders fails unless
\* the grid has no Wall cell.
C7_NoBodyBeforeInit ==
    /\ [](bodies # << >> => physPc = "ready" /\ world # "null")
    /\ [][world = "null" => bodies' = bodies /\ carBody' = carBody]_vars
    /\ [][(world = "null" /\ CreateCarBody) => lastError' = "TypeError"]_vars
    /\ [][(world = "null" /\ CreateMazeColliders /\ WallSet(mazeData) # {})
            => lastError' = "TypeError"]_vars

\* A creation call failed before initialisation and created nothing.
C7_Witness ==
    /\ physPc # "ready"
    /\ lastError = "TypeError"
    /\ bodies = << >>
    /\ carBody = 0
    /\ Cardinality(WallSet(mazeData)) > 0

(***************************************************************************)
(* Station placement: getRandomPlatePlacements, createPlateMesh,           *)
(* createStations                                                          *)
(***************************************************************************)

\* Largest grid stations are placed on.
PlaceMaxW == 4
PlaceMaxH == 3

\* createStations asks for numPlates = 12 plates and the sampling loop gives
\* up after maxAttempts = 2000 draws; the model runs the same loop for every
\* request up to NumPlates and with the budget MaxAttempts, scaled to the
\* grids above.
NumPlates == 2
MaxAttempts == 3

minDistanceFromSpawn == 3
MinPlateDistance == 2
plateMazeWidth == 50
plateMazeHeight == 50

\* Math.sqrt(n) < k for integers n >= 0, k >= 0: the square root is
\* monotone and exact on perfect squares.
SqrtLess(n, k) == n < k * k

\* The loop over the existing placements: tooClose.
TooClose(pl, x, z) ==
    \E i \in 1..Len(pl) :
        SqrtLess((x - pl[i].x) * (x - pl[i].x) + (z - pl[i].z) * (z - pl[i].z),
                 MinPlateDistance)

\* Mutant: the spacing test is left out.
AcceptsNoSpacing(g, pl, x, z) ==
    /\ g[x][z] = 0
    /\ ~SqrtLess(x * x + z * z, minDistanceFromSpawn)

\* Mutant: the spawn clearance test is left out.
AcceptsNoClearance(g, pl, x, z) ==
    /\ g[x][z] = 0
    /\ ~TooClose(pl, x, z)

\* The three tests of the loop body: the draw (x, z) passes none of the
\* continue statements.
Accepts(g, pl, x, z) ==
    /\ g[x][z] = 0
    /\ ~SqrtLess(x * x + z * z, minDistanceFromSpawn)
    /\ ~TooClose(pl, x, z)

\* The loop condition of getRandomPlatePlacements.
Sampling == Len(placements) < numPlates /\ attempts < MaxAttempts

\* One iteration whose draw is rejected (a continue).
SampleReject ==
    /\ plPc = "sampling"
    /\ Sampling
    /\ \E x \in 0..(GridWidth(mazeData) - 1), z \in 0..(GridHeight(mazeData) - 1) :
          ~Accepts(mazeData, placements, x, z)
    /\ attempts' = attempts + 1
    /\ UNCHANGED <<numPlates, placements, plPc, stations>>
    /\ UNCHANGED <<mazeVars, mazeData, levelVars, carVars, loopVars, inputVars>>

\* One iteration whose draw is accepted: placements.push({ x, z }).
SampleAccept ==
    /\ plPc = "sampling"
    /\ Sampling
    /\ \E x \in 0..(GridWidth(mazeData) - 1), z \in 0..(GridHeight(mazeData) - 1) :
          /\ Accepts(mazeData, placements, x, z)
          /\ placements' = Append(placements, Cell(x, z))
    /\ attempts' = attempts + 1
    /\ UNCHANGED <<numPlates, plPc, stations>>
    /\ UNCHANGED <<mazeVars, mazeData, levelVars, carVars, loopVars, inputVars>>

\* The loop ends and getRandomPlatePlacements returns placements.
ReturnPlacements ==
    /\ plPc = "sampling"
    /\ ~Sampling
    /\ plPc' = "placed"
    /\ UNCHANGED <<numPlates, placements, attempts, stations>>
    /\ UNCHANGED <<mazeVars, mazeData, levelVars, carVars, loopVars, inputVars>>

\* createPlateMesh(x, z): plate.position (in tenths), centred with
\* mazeWidth = 50 and mazeHeight = 50.
PlatePosition(x, z) ==
    <<10 * x - 5 * plateMazeWidth, 1, 10 * z - 5 * plateMazeHeight>>

\* The rest of createStations: one station per placement.
FinishStations ==
    /\ plPc = "placed"
    /\ stations' = [i \in 1..Len(placements) |->
                      [x |-> placements[i].x, z |-> placements[i].z,
                       position |-> PlatePosition(placements[i].x,
                                                  placements[i].z)]]
    /\ plPc' = "done"
    /\ UNCHANGED <<numPlates, placements, attempts>>
    /\ UNCHANGED <<mazeVars, mazeData, levelVars, carVars, loopVars, inputVars>>

\* The grids stations are placed on: any cell at the spawn clearance or
\* beyond is Wall or Path; the cells nearer than the clearance are Path,
\* the case in which only the clearance test keeps them out.
PlaceGrids(w, h) ==
    LET far == {c \in Cells(w, h) : c.x * c.x + c.z * c.z >= 9}
    IN  {[x \in 0..(w - 1) |-> [z \in 0..(h - 1) |->
            IF Cell(x, z) \in S THEN Wall ELSE Path]] : S \in SUBSET far}

\* createStations(scene, mazeData) has entered the sampling loop.
InitPlace ==
    /\ \E w \in 1..PlaceMaxW, h \in 1..PlaceMaxH : mazeData \in PlaceGrids(w, h)
    /\ numPlates \in 0..NumPlates
    /\ placements = << >>
    /\ attempts = 0
    /\ plPc = "sampling"
    /\ stations = << >>
    /\ IdleMaze
    /\ IdleLevel
    /\ IdleCar
    /\ IdleLoop
    /\ IdleInput

NextPlace == SampleReject \/ SampleAccept \/ ReturnPlacements \/ FinishStations

SpecPlace == InitPlace /\ [][NextPlace]_vars

Dist2(a, b) == (a.x - b.x) * (a.x - b.x) + (a.z - b.z) * (a.z - b.z)

\* A list of cells is well placed on g: on Path cells, pairwise at least 2
\* apart, each at least 3 from the spawn cell (0,0).
WellPlaced(g, pl) ==
    /\ \A i \in 1..Len(pl) : g[pl[i].x][pl[i].z] = Path
    /\ \A i, j \in 1..Len(pl) : i # j => Dist2(pl[i], pl[j]) >= 4
    /\ \A i \in 1..Len(pl) : Dist2(pl[i], Cell(0, 0)) >= 9

\* C2: in every state of the sampling loop and after it, the placements
\* lie on Path cells, are pairwise at distance >= 2, are at distance >= 3
\* from (0,0), and are at most as many as requested.
C2_PlacementsValid ==
    plPc # "idle" =>
        /\ WellPlaced(mazeData, placements)
        /\ Len(placements) <= numPlates

\* Two stations were accepted and returned.
C2_Witness ==
    /\ plPc = "placed"
    /\ numPlates = 2
    /\ Len(placements) = 2
    /\ attempts = 3

\* g admits n cells that are Path, pairwise >= 2 apart and >= 3 from spawn.
Admits(g, n) ==
    LET ok == {c \in PathCells(g, GridWidth(g), GridHeight(g)) :
                  Dist2(c, Cell(0, 0)) >= 9}
    IN  \E S \in SUBSET ok :
            /\ Cardinality(S) = n
            /\ \A a, b \in S : a # b => Dist2(a, b) >= 4

\* C6 as claimed: on a maze that admits the requested number of well
\* spaced cells the placer returns exactly that many stations, whatever the
\* draws; on any other maze it returns strictly fewer.
C6_AsClaimed ==
    plPc = "done" =>
        IF Admits(mazeData, numPlates)
        THEN Len(stations) = numPlates
        ELSE Len(stations) < numPlates

\* C6 as amended: the placer returns at most the requested number of
\* stations; it returns fewer only when the attempt budget is used up; and
\* on a maze that does not admit the requested number it returns strictly
\* fewer.
C6_FullOrBudgetSpent ==
    plPc = "done" =>
        /\ Len(stations) <= numPlates
        /\ Len(stations) = Len(placements)
        /\ (Len(stations) < numPlates => attempts = MaxAttempts)
        /\ (~Admits(mazeData, numPlates) => Len(stations) < numPlates)

\* The placer used up its budget and under-filled on a maze that admits
\* the request.
C6_Witness ==
    /\ plPc = "done"
    /\ numPlates = NumPlates
    /\ Admits(mazeData, numPlates)
    /\ Len(stations) < numPlates
    /\ attempts = MaxAttempts

\* C10 as claimed: every station of a W x H grid stands at
\* (x - W/2, 0.1, z - H/2), the mapping that places the walls.
C10_StationsOnGrid ==
    plPc = "done" =>
        \A i \in 1..Len(stations) :
            stations[i].position =
                <<10 * stations[i].x - 5 * GridWidth(mazeData), 1,
                  10 * stations[i].z - 5 * GridHeight(mazeData)>>

(***************************************************************************)
(* updateCarPhysics                                                        *)
(*                                                                         *)
(* A quaternion is kept in halves: rotation.x stands for 2 * quat.x.  A    *)
(* number the code computes with a square root is kept exactly, as         *)
(* n / sqrt(r), or as NaN.                                                 *)
(***************************************************************************)

\* The quaternion components run over -MaxHalf/2 .. MaxHalf/2.
MaxHalf == 2

FORWARD_FORCE == 80
TURN_TORQUE == 8

Quats == [x : -MaxHalf..MaxHalf, y : -MaxHalf..MaxHalf,
          z : -MaxHalf..MaxHalf, w : -MaxHalf..MaxHalf]

KeyStates == [forward : BOOLEAN, backward : BOOLEAN, left : BOOLEAN, right : BOOLEAN]

NaN == [nan |-> TRUE, n |-> 0, r |-> 1]

\* The number n / sqrt(r), r > 0.
Num(n, r) == [nan |-> FALSE, n |-> n, r |-> r]

\* v * k and -v for an integer k; NaN stays NaN.
Times(v, k) == IF v.nan THEN NaN ELSE Num(v.n * k, v.r)
Minus(v) == IF v.nan THEN NaN ELSE Num(-v.n, v.r)

\* Twice the forward vector:
\*   x: 2 * (quat.x * quat.z - quat.w * quat.y)
\*   y: 2 * (quat.y * quat.z + quat.w * quat.x)
\*   z: 1 - 2 * (quat.x * quat.x + quat.y * quat.y)
Forward2(q) ==
    << q.x * q.z - q.w * q.y,
       q.y * q.z + q.w * q.x,
       2 - (q.x * q.x + q.y * q.y) >>

\* Four times the squared length of the forward vector: len = sqrt(LenSq4) / 2.
LenSq4(f) == f[1] * f[1] + f[2] * f[2] + f[3] * f[3]

\* forward.c /= len: the component c/2 over sqrt(lenSq4)/2; 0 / 0 is NaN.
DivideByLen(c, lenSq4) == IF lenSq4 = 0 THEN NaN ELSE Num(c, lenSq4)

\* The normalised forward vector of the rotation q.
Forward(q) ==
    LET f == Forward2(q)
    IN  [x |-> DivideByLen(f[1], LenSq4(f)),
         y |-> DivideByLen(f[2], LenSq4(f)),
         z |-> DivideByLen(f[3], LenSq4(f))]

Vec(x, y, z) == [x |-> x, y |-> y, z |-> z]

\* updateCarPhysics(carBody, inputKeys): returns at once without a body,
\* otherwise applies an impulse for forward and for backward and a torque
\* impulse for left and for right.
UpdateCarPhysics ==
    /\ carPc = "update"
    /\ carPc' = "updated"
    /\ IF carBody = 0
       THEN UNCHANGED <<impulses, torques>>
       ELSE LET forward == Forward(rotation)
            IN  /\ impulses' =
                     (IF inputKeys.forward
                      THEN << Vec(Times(forward.x, FORWARD_FORCE), Num(0, 1),
                                  Times(forward.z, FORWARD_FORCE)) >>
                      ELSE << >>)
                     \o
                     (IF inputKeys.backward
                      THEN << Vec(Times(Minus(forward.x), FORWARD_FORCE), Num(0, 1),
                                  Times(Minus(forward.z), FORWARD_FORCE)) >>
                      ELSE << >>)
                /\ torques' =
                     (IF inputKeys.left
                      THEN << Vec(Num(0, 1), Num(TURN_TORQUE, 1), Num(0, 1)) >>
                      ELSE << >>)
                     \o
                     (IF inputKeys.right
                      THEN << Vec(Num(0, 1), Num(-TURN_TORQUE, 1), Num(0, 1)) >>
                      ELSE << >>)
    /\ UNCHANGED <<rotation, inputKeys>>
    /\ UNCHANGED <<mazeVars, mazeData, levelVars, placeVars, loopVars, inputVars>>

\* A tick begins: the body (if any) has some rotation, the keys some state.
InitCar ==
    /\ rotation \in Quats
    /\ inputKeys \in KeyStates
    /\ impulses = << >>
    /\ torques = << >>
    /\ carPc = "update"
    /\ IdleMaze
    /\ mazeData = NoMaze
    /\ world = "World"
    /\ physPc = "ready"
    /\ \/ carBody = 0 /\ bodies = << >>
       \/ carBody = 1 /\ bodies = << CarBodyAt(<<0, 10, 0>>) >>
    /\ collidersMade = FALSE
    /\ lastError = "none"
    /\ instances = NoMesh
    /\ IdlePlace
    /\ IdleLoop
    /\ IdleInput

NextCar == UpdateCarPhysics

SpecCar == InitCar /\ [][NextCar]_vars

\* The number v is the integer k.
IsInt(v, k) ==
    /\ ~v.nan
    /\ v.n * v.n = k * k * v.r
    /\ (v.n < 0) = (k < 0)

IsVec(v, x, y, z) == IsInt(v.x, x) /\ IsInt(v.y, y) /\ IsInt(v.z, z)

identityOrientation == [x |-> 0, y |-> 0, z |-> 0, w |-> 2]

\* C3 as claimed: with the identity orientation and only forward pressed,
\* updateCarPhysics applies exactly one linear impulse, (0, 0, -80), and no
\* torque impulse.
C3_ForwardImpulse ==
    (/\ carPc = "updated"
     /\ carBody # 0
     /\ rotation = identityOrientation
     /\ inputKeys = [forward |-> TRUE, backward |-> FALSE,
                     left |-> FALSE, right |-> FALSE])
    => /\ Len(impulses) = 1
       /\ IsVec(impulses[1], 0, 0, -FORWARD_FORCE)
       /\ torques = << >>

\* C8 as claimed: for an orientation whose forward vector has zero length
\* no impulse applied has a NaN or non-zero component, whatever the keys.
C8_DegenerateIsZero ==
    (/\ carPc = "updated"
     /\ carBody # 0
     /\ LenSq4(Forward2(rotation)) = 0)
    => \A i \in 1..Len(impulses) : IsVec(impulses[i], 0, 0, 0)

(***************************************************************************)
(* main.js: the frame loop                                                 *)
(***************************************************************************)

\* Frames animated before the model stops.
MaxFrames == 5

\* Window sizes the renderer is resized to.
Viewports == { <<800, 600>>, <<1024, 768>> }

\* onCarModelLoaded
OnCarModelLoaded ==
    /\ loadPc = "loading"
    /\ loadPc' = "loaded"
    /\ car' = "loaded"
    /\ UNCHANGED <<frame, cubeRotation, viewport, frameCalls>>
    /\ UNCHANGED <<mazeVars, mazeData, levelVars, placeVars, carVars, inputVars>>

\* onCarModelError
OnCarModelError ==
    /\ loadPc = "loading"
    /\ loadPc' = "failed"
    /\ UNCHANGED <<frame, car, cubeRotation, viewport, frameCalls>>
    /\ UNCHANGED <<mazeVars, mazeData, levelVars, placeVars, carVars, inputVars>>

\* The resize listener.
Resize ==
    /\ \E v \in Viewports \ {viewport} : viewport' = v
    /\ UNCHANGED <<frame, car, loadPc, cubeRotation, frameCalls>>
    /\ UNCHANGED <<mazeVars, mazeData, levelVars, placeVars, carVars, inputVars>>

\* The calls one run of animate() makes, in order.
AnimateCalls ==
    << "requestAnimationFrame", "clock.getDelta", "camera.position.lerp",
       "camera.lookAt", "renderer.render" >>

\* animate(): one frame.
Animate ==
    /\ frame < MaxFrames
    /\ frame' = frame + 1
    /\ \E delta \in 1..2 : cubeRotation' = cubeRotation + delta
    /\ frameCalls' = AnimateCalls
    /\ UNCHANGED <<car, loadPc, viewport>>
    /\ UNCHANGED <<mazeVars, mazeData, levelVars, placeVars, carVars, inputVars>>

\* main.js has been evaluated up to its last line, the first animate().
InitLoop ==
    /\ frame = 0
    /\ car = "null"
    /\ loadPc = "loading"
    /\ cubeRotation = 0
    /\ viewport \in Viewports
    /\ frameCalls = << >>
    /\ IdleMaze
    /\ mazeData = NoMaze
    /\ IdleLevel
    /\ IdlePlace
    /\ IdleCar
    /\ IdleInput

NextLoop == Animate \/ OnCarModelLoaded \/ OnCarModelError \/ Resize

SpecLoop == InitLoop /\ [][NextLoop]_vars

\* The five steps of a simulation frame, by the call that performs each.
SimulationSteps ==
    << "snapshotInput", "carBody.rotation", "updateCarPhysics",
       "stepPhysics", "syncCarMesh" >>

\* C4 as claimed: every frame performs the five steps once each, in order:
\* input snapshot, orientation read, updateCarPhysics, stepPhysics,
\* syncCarMesh (before the render).
C4_FrameOrder ==
    frame > 0 =>
        /\ SelectSeq(frameCalls, LAMBDA c : c \in Range(SimulationSteps))
              = SimulationSteps
        /\ frameCalls[Len(frameCalls)] = "renderer.render"

(***************************************************************************)
(* input.js: the keyboard state                                            *)
(*                                                                         *)
(* The keyboard is a set of physical keys; the key name an event carries   *)
(* (e.key) is that of the physical key, a letter being upper case while    *)
(* Shift is down.                                                          *)
(***************************************************************************)

Letters == {"KeyW", "KeyS", "KeyA", "KeyD"}
Arrows == {"ArrowUp", "ArrowDown", "ArrowLeft", "ArrowRight"}
PhysicalKeys == Letters \cup Arrows \cup {"ShiftLeft"}

ActionNames == {"forward", "backward", "left", "right"}

\* e.key of an event of the physical key code, Shift being down or not.
KeyName(code, shift) ==
    CASE code = "KeyW" -> IF shift THEN "W" ELSE "w"
      [] code = "KeyS" -> IF shift THEN "S" ELSE "s"
      [] code = "KeyA" -> IF shift THEN "A" ELSE "a"
      [] code = "KeyD" -> IF shift THEN "D" ELSE "d"
      [] code = "ShiftLeft" -> "Shift"
      [] OTHER -> code

keyMap ==
    [k \in {"w", "W", "ArrowUp", "s", "S", "ArrowDown",
            "a", "A", "ArrowLeft", "d", "D", "ArrowRight"} |->
        CASE k \in {"w", "W", "ArrowUp"} -> "forward"
          [] k \in {"s", "S", "ArrowDown"} -> "backward"
          [] k \in {"a", "A", "ArrowLeft"} -> "left"
          [] OTHER -> "right"]

\* const action = keyMap[e.key]; if (action) keys[action] = v
SetAction(k, key, v) ==
    IF key \in DOMAIN keyMap THEN [k EXCEPT ![keyMap[key]] = v] ELSE k

\* The keydown listener, for a first press or an auto-repeat of a key.
KeyDown ==
    /\ \E code \in PhysicalKeys :
          LET key == KeyName(code, "ShiftLeft" \in held)
          IN  /\ held' = held \cup {code}
              /\ lastKey' = key
              /\ keys' = SetAction(keys, key, TRUE)
              /\ prevented' = (key \in DOMAIN keyMap /\ key \in Arrows)
    /\ UNCHANGED <<mazeVars, mazeData, levelVars, placeVars, carVars, loopVars>>

\* The keyup listener, for a key that is down.
KeyUp ==
    /\ \E code \in held :
          LET key == KeyName(code, "ShiftLeft" \in held)
          IN  /\ held' = held \ {code}
              /\ lastKey' = key
              /\ keys' = SetAction(keys, key, FALSE)
              /\ prevented' = FALSE
    /\ UNCHANGED <<mazeVars, mazeData, levelVars, placeVars, carVars, loopVars>>

InitInput ==
    /\ IdleInput
    /\ IdleMaze
    /\ mazeData = NoMaze
    /\ IdleLevel
    /\ IdlePlace
    /\ IdleCar
    /\ IdleLoop

NextInput == KeyDown \/ KeyUp

SpecInput == InitInput /\ [][NextInput]_vars

\* The physical keys whose key names are mapped to the action a.
KeysOfAction(a) ==
    {code \in PhysicalKeys :
        \E shift \in BOOLEAN :
            /\ KeyName(code, shift) \in DOMAIN keyMap
            /\ keyMap[KeyName(code, shift)] = a}

\* C11 as claimed: each flag is true exactly when at least one of the keys
\* mapped to its action is held down.
C11_FlagIffHeld ==
    \A a \in ActionNames : keys[a] = (held \cap KeysOfAction(a) # {})

\* The other half of C11: an event changes no flag but the one its key is
\* mapped to, and an event of an unmapped key changes none.
C11_OtherFlagsUnchanged ==
    [][\A a \in ActionNames :
          keys'[a] # keys[a] =>
              (lastKey' \in DOMAIN keyMap /\ keyMap[lastKey'] = a)]_vars

====
